---- MODULE Spec2Model ----
(***************************************************************************)
(* Model of the Sport80 -> Supabase synchroniser.                          *)
(*                                                                         *)
(*  - SpecWalk models the page walker of sport80/sport80_http_client.py    *)
(*    (SportEightyHTTP.__collate_results and __next_page).                 *)
(*  - Spec models main() of update_supabase_from_sport80.py together with  *)
(*    the destination-store helpers it calls.                              *)
(*                                                                         *)
(* Python strings are modelled as sequences of one-character strings, so   *)
(* that strip() and split('/') are computed and not assumed.               *)
(***************************************************************************)
EXTENDS Integers, Sequences, FiniteSets, TLC

(***************************************************************************)
(* Bounds                                                                  *)
(***************************************************************************)
NUrls == 2        \* next-page URLs the remote source serves (1..NUrls)
MaxIndex == NUrls + 2  \* the walker's page index is followed up to this value
MaxEvents == 2    \* events returned by fetch_recent_events_from_sport80
MaxRuns == 2      \* successive runs of main() against the same store

NoVal == "None"   \* Python's None / an absent key

(***************************************************************************)
(* Python helpers                                                          *)
(***************************************************************************)
Range(f) == {f[x] : x \in DOMAIN f}

Max(S) == IF S = {} THEN 0 ELSE CHOOSE m \in S : \A x \in S : x <= m

\* str.strip(): drop leading and trailing blanks.
RECURSIVE LStrip(_)
LStrip(s) == IF s # <<>> /\ Head(s) = " " THEN LStrip(Tail(s)) ELSE s

RECURSIVE RStrip(_)
RStrip(s) == IF s # <<>> /\ s[Len(s)] = " " THEN RStrip(SubSeq(s, 1, Len(s) - 1)) ELSE s

Strip(s) == RStrip(LStrip(s))

\* str.split('/')[-1]: the segment after the last '/' (the whole string
\* when it holds no '/').
RECURSIVE LastSegment(_)
LastSegment(s) ==
    IF s = <<>> THEN <<>>
    ELSE IF s[Len(s)] = "/" THEN <<>>
    ELSE LastSegment(SubSeq(s, 1, Len(s) - 1)) \o <<s[Len(s)]>>

(***************************************************************************)
(* State                                                                   *)
(***************************************************************************)
VARIABLES
    \* --- the page walker (sport80_http_client.py) ---
    remote,        \* the remote source: URL -> page it serves (URL 0 is the first page)
    payload,       \* the payload the caller handed to __collate_results
    all_pages,     \* __collate_results: all_pages, a dict keyed 0..index-1
    current_page,  \* __collate_results: current_page
    index,         \* __collate_results: index
    wpc,           \* position of the walker: "idle", "loop", "done"
    requests,      \* every next-page POST issued, in order
    caller,        \* the operation that started the traversal
    first_payload, \* the payload of that operation's first-page request
    first_ok,      \* the operation's first-page response was ok
    results,       \* what the operation returned, once it has returned
    \* --- the orchestrator (update_supabase_from_sport80.py) ---
    source,        \* the remote event index, as sorted and truncated by the fetch
    db,            \* the destination table: a set of rows
    configured,    \* SUPABASE_URL and SUPABASE_SERVICE_ROLE_KEY are both set
    run,           \* number of the current run of main()
    pc,            \* position of main()
    recent,        \* main: recent_sport80_events_data
    cands,         \* main: candidate_event_details
    existing,      \* main: already_existing_event_ids_in_db
    max_id_in_db,  \* main: max_id_in_db
    next_id,       \* main: next_id_for_new_rows
    processed,     \* main: processed_event_ids_this_run
    count,         \* main: new_events_added_count
    i,             \* main: position of the candidate loop
    outcomes,      \* how each handled candidate left the loop body, in order
    effects,       \* every remote call of this run, in order
    failures,      \* the kinds of call that failed in this run
    db_start,      \* the destination table as it was when this run started
    summary,       \* the summary handed to send_discord_notification, or None
    prev_clean,    \* no call of the previous run failed
    \* --- fetch_recent_events_from_sport80 on its own ---
    yr_index,      \* the event index of each of the two years asked for
    limit,         \* the argument num_events
    fetched,       \* the list the function returned
    rpc            \* "idle" before the call, "done" after it

wvars == <<remote, payload, all_pages, current_page, index, wpc, requests, caller,
           first_payload, first_ok, results>>

svars == <<source, db, configured, run, pc, recent, cands, existing, max_id_in_db,
           next_id, processed, count, i, outcomes, effects, failures, db_start,
           summary, prev_clean>>

rvars == <<yr_index, limit, fetched, rpc>>

vars == <<wvars, svars, rvars>>

(***************************************************************************)
(* The page walker                                                         *)
(***************************************************************************)
Urls == 0..NUrls

\* A page response: a mapping with an items array ('data') and an optional
\* next-page URL; 0 stands for an absent, None or empty 'next_page_url'.
Items(u, n) == [j \in 1..n |-> <<u, j>>]

ItemCounts == {0, 2}

PagesAt(u) == {[next_page_url |-> c, data |-> Items(u, n)] : c \in Urls, n \in ItemCounts}

Payloads == {NoVal, "date_range"}

FetchOutcomes == {"ok", "status", "exception"}

\* The None that __next_page returns in place of a page.
NoPage == [none |-> TRUE]

\* A __next_page that does not look at the response status.
NextPageIgnoringStatus(next_url, outcome) == remote[next_url]

\* __next_page: one POST to next_url; the page when the response is ok,
\* None on a non-success status or on an exception.
NextPage(next_url, outcome) ==
    IF outcome = "ok" THEN remote[next_url] ELSE NoPage

\* An all_pages[index - 1] = next_page, overwriting the page before.
AddPageOffByOne(pages, idx, page) ==
    [k \in DOMAIN pages |-> IF k = idx - 1 THEN page ELSE pages[k]]

\* all_pages[index] = next_page
AddPage(pages, idx, page) ==
    [k \in (DOMAIN pages) \cup {idx} |-> IF k = idx THEN page ELSE pages[k]]

\* The operation has not returned yet.
Pending == [kind |-> "pending", items |-> <<>>]

\* No summary has been handed to the notification yet.
NoSummary == [none |-> TRUE]

\* fetch_recent_events_from_sport80 is not being looked at on its own.
RecentIdle ==
    /\ yr_index = <<>>
    /\ limit = 0
    /\ fetched = <<>>
    /\ rpc = "off"

\* The walker is idle; the orchestrator's variables are not its concern.
SyncIdle ==
    /\ source = <<>>
    /\ db = {}
    /\ configured = FALSE
    /\ run = 1
    /\ pc = "idle"
    /\ recent = <<>>
    /\ cands = <<>>
    /\ existing = {}
    /\ max_id_in_db = 0
    /\ next_id = 0
    /\ processed = {}
    /\ count = 0
    /\ i = 0
    /\ outcomes = <<>>
    /\ effects = <<>>
    /\ failures = {}
    /\ db_start = {}
    /\ summary = NoSummary
    /\ prev_clean = TRUE

WalkInit ==
    /\ remote \in {r \in [Urls -> UNION {PagesAt(u) : u \in Urls}] :
                      \A u \in Urls : r[u] \in PagesAt(u)}
    /\ payload = NoVal
    /\ all_pages = <<>>
    /\ current_page = NoPage
    /\ index = 0
    /\ wpc = "idle"
    /\ requests = <<>>
    /\ caller = NoVal
    /\ first_payload = NoVal
    /\ first_ok = TRUE
    /\ results = Pending
    /\ SyncIdle
    /\ RecentIdle

\* The operations that start a traversal.
Callers == {"get_rankings", "get_event_index", "get_event_results", "get_lifter_data"}

\* The json payload of the operation's first-page POST: the date range for
\* get_rankings and get_event_index, none for the other two.
FirstPagePayload(op) ==
    IF op \in {"get_rankings", "get_event_index"} THEN "date_range" ELSE NoVal

\* A call of __collate_results that leaves the payload argument out.
CollatePayloadDropped(op) == NoVal

\* The payload argument the operation hands to __collate_results: its own
\* payload at lines 110 and 137, the default None at lines 152 and 195.
CollatePayload(op) ==
    IF op \in {"get_rankings", "get_event_index"} THEN "date_range" ELSE NoVal

\* A loop that forgets current_page = next_page.
AdvanceStuck(cur, next_page) == cur

\* current_page = next_page
Advance(cur, next_page) == next_page

\* Whether the operation calls __collate_results on a first-page response
\* that is not ok: get_event_results does (line 152 comes before the test
\* of get_page.ok at line 154), the others test get_page.ok first (lines
\* 108, 127, 194).
CollatesWhenFailed(op) == op = "get_event_results"

\* Entry of __collate_results(page_one, payload): page_one is the JSON body
\* of the first-page response of the calling operation, whatever that body
\* holds.
CollateStart ==
    /\ wpc = "idle"
    /\ \E op \in Callers, ok \in BOOLEAN :
        /\ ok \/ CollatesWhenFailed(op)
        /\ caller' = op
        /\ first_ok' = ok
        /\ first_payload' = FirstPagePayload(op)
        /\ payload' = CollatePayload(op)
        /\ payload' \in Payloads
    /\ all_pages' = [k \in {0} |-> remote[0]]
    /\ current_page' = remote[0]
    /\ index' = 1
    /\ wpc' = "loop"
    /\ UNCHANGED <<remote, requests, results>>
    /\ UNCHANGED <<svars, rvars>>

\* The value an operation gives without a traversal: get_rankings returns
\* its empty results list (lines 102, 112), get_event_index returns {} (line
\* 129), get_lifter_data falls off its end (None); in get_event_results the
\* body is no JSON and get_page.json() raises at line 152.
WithoutTraversal(op) ==
    CASE op = "get_rankings" -> [kind |-> "items", items |-> <<>>]
      [] op = "get_event_index" -> [kind |-> "items", items |-> <<>>]
      [] op = "get_lifter_data" -> [kind |-> "none", items |-> <<>>]
      [] op = "get_event_results" -> [kind |-> "raised", items |-> <<>>]

\* The first-page response is not ok and the operation ends without calling
\* __collate_results.
FirstPageFailed ==
    /\ wpc = "idle"
    /\ \E op \in Callers :
        /\ caller' = op
        /\ first_payload' = FirstPagePayload(op)
        /\ results' = WithoutTraversal(op)
    /\ first_ok' = FALSE
    /\ wpc' = "skipped"
    /\ UNCHANGED <<remote, payload, all_pages, current_page, index, requests>>
    /\ UNCHANGED <<svars, rvars>>

\* One iteration of the while loop whose fetch returned a page.
CollateFetched ==
    /\ wpc = "loop"
    /\ current_page.next_page_url # 0
    /\ index <= MaxIndex
    /\ \E outcome \in FetchOutcomes :
        LET next_page == NextPage(current_page.next_page_url, outcome) IN
        /\ next_page # NoPage
        /\ requests' = Append(requests, [url |-> current_page.next_page_url,
                                          payload |-> payload, outcome |-> outcome])
        /\ all_pages' = AddPage(all_pages, index, next_page)
        /\ current_page' = Advance(current_page, next_page)
        /\ index' = index + 1
    /\ UNCHANGED <<remote, payload, wpc, caller, first_payload, first_ok, results>>
    /\ UNCHANGED <<svars, rvars>>

\* One iteration of the while loop whose fetch failed: 'break', then return.
CollateFetchFailed ==
    /\ wpc = "loop"
    /\ current_page.next_page_url # 0
    /\ index <= MaxIndex
    /\ \E outcome \in FetchOutcomes :
        /\ NextPage(current_page.next_page_url, outcome) = NoPage
        /\ requests' = Append(requests, [url |-> current_page.next_page_url,
                                          payload |-> payload, outcome |-> outcome])
    /\ wpc' = "done"
    /\ UNCHANGED <<remote, payload, all_pages, current_page, index, caller, first_payload,
                   first_ok, results>>
    /\ UNCHANGED <<svars, rvars>>

\* The loop condition is false: return all_pages.
CollateReturn ==
    /\ wpc = "loop"
    /\ current_page.next_page_url = 0
    /\ wpc' = "done"
    /\ UNCHANGED <<remote, payload, all_pages, current_page, index, requests, caller,
                   first_payload, first_ok, results>>
    /\ UNCHANGED <<svars, rvars>>

\* A flattening that takes the pages in descending order of their index.
RECURSIVE FlattenFirstDescending(_, _)
FlattenFirstDescending(pages, n) ==
    IF n = 0 THEN <<>> ELSE pages[n - 1].data \o FlattenFirstDescending(pages, n - 1)

\* The items of the first n pages: dict.values() gives the pages in the
\* order they were put in, which is the order of their index.
RECURSIVE FlattenFirst(_, _)
FlattenFirst(pages, n) ==
    IF n = 0 THEN <<>> ELSE FlattenFirst(pages, n - 1) \o pages[n - 1].data

\* get_rankings, line 111:
\* [item for sublist in collated_pages.values() for item in sublist['data']]
Flatten(pages) == FlattenFirst(pages, Cardinality(DOMAIN pages))

\* helpers.collate_index: the items of the collated pages as one index.
CollateIndex(pages) == Flatten(pages)

\* What the operation returns after __collate_results, the client being
\* built with return_dict=True: get_rankings the flattened items (line
\* 111), get_event_index the collated index (lines 142-144), get_lifter_data
\* the pages themselves (line 195); get_event_results the collated index
\* when the first-page response was ok and nothing (None) when it was not
\* (lines 153-157).
ReturnValue(op, ok, pages) ==
    CASE op = "get_rankings" -> [kind |-> "items", items |-> Flatten(pages)]
      [] op = "get_event_index" -> [kind |-> "items", items |-> CollateIndex(pages)]
      [] op = "get_lifter_data" -> [kind |-> "pages", items |-> <<>>]
      [] op = "get_event_results" ->
            IF ok THEN [kind |-> "items", items |-> CollateIndex(pages)]
            ELSE [kind |-> "none", items |-> <<>>]

\* The operation takes the collated pages and returns.
OperationReturn ==
    /\ wpc = "done"
    /\ results = Pending
    /\ results' = ReturnValue(caller, first_ok, all_pages)
    /\ UNCHANGED <<remote, payload, all_pages, current_page, index, wpc, requests, caller,
                   first_payload, first_ok>>
    /\ UNCHANGED <<svars, rvars>>

WalkNext ==
    \/ CollateStart \/ FirstPageFailed
    \/ CollateFetched \/ CollateFetchFailed \/ CollateReturn
    \/ OperationReturn

SpecWalk == WalkInit /\ [][WalkNext]_vars

\* The walker runs in one thread that nothing preempts for ever: a step
\* that can be taken is taken.
SpecWalkFair == WalkInit /\ [][WalkNext]_vars /\ WF_vars(WalkNext)

(***************************************************************************)
(* Properties of the page walker (checked under SpecWalk)                  *)
(***************************************************************************)
\* The URLs of the cursor chain that starts at URL u, at most n hops long.
RECURSIVE Chain(_, _)
Chain(u, n) ==
    <<u>> \o (IF remote[u].next_page_url = 0 \/ n = 0
              THEN <<>>
              ELSE Chain(remote[u].next_page_url, n - 1))

AllFetchesOk == \A k \in 1..Len(requests) : requests[k].outcome = "ok"

\* all_pages holds exactly the first n pages of the chain, keyed 0..n-1.
HoldsChainPrefix(n) ==
    /\ DOMAIN all_pages = 0..(n - 1)
    /\ \A k \in 0..(n - 1) : all_pages[k] = remote[Chain(0, MaxIndex)[k + 1]]

\* C1: when every fetch succeeds, the walker returns the pages of the cursor
\* chain from the first page to the first page without a cursor, keyed
\* 0..N-1 in traversal order, and no page beyond it, however many pages the
\* remote source holds.
C1_ChainCollated ==
    (wpc = "done" /\ AllFetchesOk) =>
        LET chain == Chain(0, MaxIndex) IN
        /\ remote[chain[Len(chain)]].next_page_url = 0
        /\ HoldsChainPrefix(Len(chain))
        /\ Len(requests) = Len(chain) - 1

\* C1 witness: a chain of three pages was walked to its end without a failure.
C1_Witness ==
    /\ wpc = "done"
    /\ AllFetchesOk
    /\ Len(requests) = 2
    /\ DOMAIN all_pages = 0..2

\* C1 witness of the second half: the walk ended at page 1, which has no
\* cursor, although the remote source serves more pages.
C1_WitnessShort ==
    /\ wpc = "done"
    /\ AllFetchesOk
    /\ DOMAIN all_pages = 0..1
    /\ all_pages[1].next_page_url = 0

\* C10: a failed next-page fetch is the last request of the traversal (no
\* retry, no further fetch), the walker has returned, and it returned exactly
\* the pages collected before the failure, in order.
C10_StopOnFailure ==
    \A k \in 1..Len(requests) :
        requests[k].outcome # "ok" =>
            /\ k = Len(requests)
            /\ wpc = "done"
            /\ HoldsChainPrefix(k)

\* C10 witness: the third fetch of a traversal failed after two pages were
\* collected.
C10_Witness ==
    /\ Len(requests) = 2
    /\ requests[1].outcome = "ok"
    /\ requests[2].outcome # "ok"
    /\ wpc = "done"
    /\ DOMAIN all_pages = 0..1

\* C11: every next-page request of a traversal carries the payload of the
\* operation's first-page request, and goes to the cursor URL of the page
\* that was current when it was issued (the page collected just before).
C11_SamePayload ==
    \A k \in 1..Len(requests) :
        /\ requests[k].payload = first_payload
        /\ requests[k].url = all_pages[k - 1].next_page_url

\* C11 witness: a traversal started with a date-range payload issued two
\* next-page requests, to two different cursors.
C11_Witness ==
    /\ first_payload = "date_range"
    /\ Len(requests) = 2
    /\ requests[1].url # requests[2].url

\* The cursor chain from the first page reaches a page without cursor.
ChainEnds ==
    LET chain == Chain(0, MaxIndex) IN remote[chain[Len(chain)]].next_page_url = 0

\* A traversal has stopped for one of the two reasons: the current page has
\* no cursor, or the last fetch failed.
StoppedForCause ==
    \/ current_page.next_page_url = 0
    \/ Len(requests) > 0 /\ requests[Len(requests)].outcome # "ok"

\* C12 as stated, for every remote source: every traversal stops. The next
\* fetch depends on the current page only, so a traversal that stops on
\* every run never comes back, without a failed fetch, to a cursor it has
\* followed before (from there the same fetches can repeat without end).
C12_StopsForEverySource ==
    ~(/\ wpc = "loop"
      /\ AllFetchesOk
      /\ \E j, k \in 1..Len(requests) : j < k /\ requests[j].url = requests[k].url)

\* C12 amended: for every remote source whose cursor chain from the first
\* page reaches a page without cursor, a traversal eventually stops, having
\* fetched no more pages than the chain has; and whenever a traversal has
\* stopped, the current page carries no cursor or the last fetch failed.
C12_StopsWhenChainEnds ==
    /\ ChainEnds => ((wpc = "loop") ~> (wpc = "done"))
    /\ [](ChainEnds => Len(requests) < Len(Chain(0, MaxIndex)))
    /\ [](wpc = "done" => StoppedForCause)

\* C12 witness: a chain of three pages that ends was walked to its end.
C12_Witness ==
    /\ ChainEnds
    /\ Len(Chain(0, MaxIndex)) = 3
    /\ wpc = "done"
    /\ Len(requests) = 2
    /\ current_page.next_page_url = 0

\* The number of items on the pages before page k.
RECURSIVE ItemsBefore(_)
ItemsBefore(k) == IF k = 0 THEN 0 ELSE ItemsBefore(k - 1) + Len(all_pages[k - 1].data)

\* C22: what get_rankings returns holds the items of every collated page,
\* the pages in ascending order of their index and the items of a page in
\* their order on the page, and nothing else.
C22_FlattenInOrder ==
    (caller = "get_rankings" /\ wpc = "done" /\ results # Pending) =>
        LET n == Cardinality(DOMAIN all_pages) IN
        /\ results.kind = "items"
        /\ Len(results.items) = ItemsBefore(n)
        /\ \A k \in 0..(n - 1) : \A j \in 1..Len(all_pages[k].data) :
              results.items[ItemsBefore(k) + j] = all_pages[k].data[j]

\* C22 witness: get_rankings collated two pages of two items each and
\* returned the four items, those of page 0 first.
C22_Witness ==
    /\ caller = "get_rankings"
    /\ wpc = "done"
    /\ DOMAIN all_pages = 0..1
    /\ all_pages[0].data = Items(0, 2)
    /\ Len(all_pages[1].data) = 2
    /\ all_pages[1].data # all_pages[0].data
    /\ results = [kind |-> "items", items |-> all_pages[0].data \o all_pages[1].data]

\* fetch_meet_results_from_sport80, lines 210-217: the rows of what
\* event_results returned when that is a dict, [] when it is not or when
\* the call raised.
MeetResultsOf(res) == IF res.kind = "items" THEN res.items ELSE <<>>

\* C25: when the first-page response of get_event_results is not ok, no
\* next-page request is issued, and what the operation gives holds no
\* result rows for the orchestrator.
C25_NoWalkAfterFailedFirstPage ==
    (caller = "get_event_results" /\ ~first_ok) =>
        /\ requests = <<>>
        /\ results # Pending => MeetResultsOf(results) = <<>>

(***************************************************************************)
(* The orchestrator                                                        *)
(***************************************************************************)
\* A str-or-None field that is None (strings are sequences of characters).
NoStr == <<NoVal>>

\* Python truthiness of a str-or-None value.
Truthy(s) == s # NoStr /\ s # <<>>

\* The "N/A" that main() uses for 'no event id'.
NA == <<"N", "/", "A">>

\* A JSON null where a string is expected.
NullStr == <<"null">>

\* An event of the remote index: 'route' is action[0].route (None when the
\* action list, its first entry or the key is missing, null when the key
\* holds no string), 'id' and 'meet' are the fields of those names, 'nrows'
\* is the number of result rows the remote source holds for the event;
\* 'has_columns' says whether the event has a 'columns' mapping, 'col_date'
\* is columns['Start Date']['value'], 'date' and 'start_date' are the
\* fields of those names.
EventRec(route, id, meet, nrows, has_columns, col_date, date, start_date) ==
    [route |-> route, id |-> id, meet |-> meet, nrows |-> nrows,
     has_columns |-> has_columns, col_date |-> col_date, date |-> date,
     start_date |-> start_date]

\* An event without any date field.
Event(route, id, meet, nrows) ==
    EventRec(route, id, meet, nrows, FALSE, NoStr, NoStr, NoStr)

SourceEvents ==
    { Event(<<"/", "1">>, NoStr, <<"b">>, 2),
      Event(<<"/", "2", " ">>, NoStr, <<"A", " ">>, 1),
      Event(NoStr, <<"2">>, <<"b">>, 1),
      Event(<<"/", "1">>, NoStr, NoStr, 1),
      Event(NullStr, <<"2">>, <<"b">>, 1),
      Event(NoStr, NoStr, <<"b">>, 1),
      Event(<<"/", "3">>, NoStr, <<"c">>, 0),
      Event(<<"e", "/">>, <<"3">>, <<"c">>, 1) }

\* A row of the destination table (lifter and lift columns left out).
Row(id, event_id, meet) == [id |-> id, event_id |-> event_id, meet |-> meet]

SeedRows == { Row(3, <<"1">>, <<"a">>) }

RECURSIVE SeqsUpTo(_, _)
SeqsUpTo(S, n) ==
    IF n = 0 THEN {<<>>}
    ELSE LET shorter == SeqsUpTo(S, n - 1) IN
         shorter \cup {Append(q, e) : q \in shorter, e \in S}

CallOutcomes == {"ok", "fail"}

\* main, line 293: action[0].route.split raises AttributeError when the route
\* is no string; the except clause of line 294 catches KeyError, IndexError
\* and TypeError only.
ExtractKeyRaises(ev) == ev.route = NullStr

\* main, lines 290-298: the event id of an event, "N/A" when there is none.
ExtractKey(ev) ==
    IF ev.route # NoStr THEN Strip(LastSegment(ev.route))
    ELSE IF Truthy(ev.id) THEN Strip(ev.id)
    ELSE NA

\* main, lines 288-309: the candidates of the fetched events.
RECURSIVE CandidateDetails(_)
CandidateDetails(evs) ==
    IF evs = <<>> THEN <<>>
    ELSE LET ev == Head(evs)
             event_id_str == ExtractKey(ev)
             rest == CandidateDetails(Tail(evs))
         IN IF event_id_str # NA
            THEN <<[id |-> event_id_str, name |-> ev.meet, data |-> ev]>> \o rest
            ELSE rest

(***************************************************************************)
(* Dates: parse_event_date and the sort of the fetched events              *)
(***************************************************************************)
\* The part of s before the first sep (all of s when it holds none).
RECURSIVE UpTo(_, _)
UpTo(s, sep) ==
    IF s = <<>> \/ Head(s) = sep THEN <<>> ELSE <<Head(s)>> \o UpTo(Tail(s), sep)

\* str.split(sep)
RECURSIVE Split(_, _)
Split(s, sep) ==
    LET f == UpTo(s, sep) IN
    IF Len(f) = Len(s) THEN <<f>>
    ELSE <<f>> \o Split(SubSeq(s, Len(f) + 2, Len(s)), sep)

DigitVal ==
    [c \in {"0", "1", "2", "3", "4", "5", "6", "7", "8", "9"} |->
        CASE c = "0" -> 0 [] c = "1" -> 1 [] c = "2" -> 2 [] c = "3" -> 3 [] c = "4" -> 4
          [] c = "5" -> 5 [] c = "6" -> 6 [] c = "7" -> 7 [] c = "8" -> 8 [] c = "9" -> 9]

IsDigits(f) == f # <<>> /\ \A n \in 1..Len(f) : f[n] \in DOMAIN DigitVal

RECURSIVE Num(_)
Num(f) == IF f = <<>> THEN 0 ELSE 10 * Num(SubSeq(f, 1, Len(f) - 1)) + DigitVal[f[Len(f)]]

\* The fields strptime accepts: %Y is four digits, the others one or two
\* digits within their range.
YearField(f) == IsDigits(f) /\ Len(f) = 4

SmallField(f, lo, hi) == IsDigits(f) /\ Len(f) \in {1, 2} /\ Num(f) >= lo /\ Num(f) <= hi

DaysInMonth(y, m) ==
    IF m \in {4, 6, 9, 11} THEN 30
    ELSE IF m # 2 THEN 31
    ELSE IF (y % 4 = 0 /\ y % 100 # 0) \/ y % 400 = 0 THEN 29
    ELSE 28

\* A calendar date is <<year, month, day>>; a failed strptime is <<>>.
NoDate == <<>>

\* datetime(y, m, d): ValueError for the year 0 and for a day the month has not.
MakeDate(y, m, d) ==
    IF y >= 1 /\ d <= DaysInMonth(y, m) THEN <<y, m, d>> ELSE NoDate

\* strptime of a date without time of day; 'order' says which fields hold
\* the year, the month and the day.
ParseDateOnly(part, sep, order) ==
    LET f == Split(part, sep) IN
    IF Len(f) # 3 THEN NoDate
    ELSE IF ~(/\ YearField(f[order[1]])
              /\ SmallField(f[order[2]], 1, 12)
              /\ SmallField(f[order[3]], 1, 31)) THEN NoDate
    ELSE MakeDate(Num(f[order[1]]), Num(f[order[2]]), Num(f[order[3]]))

\* strptime of a date followed by blank and %H:%M:%S.
ParseDateTime(part, sep, order) ==
    LET halves == Split(part, " ") IN
    IF Len(halves) # 2 THEN NoDate
    ELSE LET t == Split(halves[2], ":") IN
         IF Len(t) # 3 THEN NoDate
         ELSE IF ~(/\ SmallField(t[1], 0, 23)
                   /\ SmallField(t[2], 0, 59)
                   /\ SmallField(t[3], 0, 61)) THEN NoDate
         ELSE ParseDateOnly(halves[1], sep, order)

\* A format list that tries month-first before day-first.
PossibleFormatsMonthFirst ==
    << [sep |-> "-", order |-> <<1, 2, 3>>, time |-> TRUE],
       [sep |-> "-", order |-> <<1, 2, 3>>, time |-> FALSE],
       [sep |-> "/", order |-> <<3, 1, 2>>, time |-> TRUE],
       [sep |-> "/", order |-> <<3, 1, 2>>, time |-> FALSE],
       [sep |-> "/", order |-> <<3, 2, 1>>, time |-> TRUE],
       [sep |-> "/", order |-> <<3, 2, 1>>, time |-> FALSE] >>

\* parse_event_date, possible_formats, in the order they are tried.
PossibleFormats ==
    << [sep |-> "-", order |-> <<1, 2, 3>>, time |-> TRUE],
       [sep |-> "-", order |-> <<1, 2, 3>>, time |-> FALSE],
       [sep |-> "/", order |-> <<3, 2, 1>>, time |-> TRUE],
       [sep |-> "/", order |-> <<3, 2, 1>>, time |-> FALSE],
       [sep |-> "/", order |-> <<3, 1, 2>>, time |-> TRUE],
       [sep |-> "/", order |-> <<3, 1, 2>>, time |-> FALSE] >>

Strptime(part, fmt) ==
    IF fmt.time THEN ParseDateTime(part, fmt.sep, fmt.order)
    ELSE ParseDateOnly(part, fmt.sep, fmt.order)

\* A default that is the latest date instead of the earliest.
MaxDate == <<9999, 12, 31>>

\* datetime.min, the default parse_event_date returns for sorting.
MinDate == <<1, 1, 1>>

\* get_nested_value as parse_event_date calls it: the 'Start Date' column
\* when the event has columns, else the 'date' field; then 'start_date'.
DateString(ev) ==
    LET first == IF ev.has_columns THEN ev.col_date ELSE ev.date IN
    IF Truthy(first) THEN first ELSE ev.start_date

\* parse_event_date, lines 71-80: the first format that parses the date part.
RECURSIVE FirstParse(_, _)
FirstParse(part, fmts) ==
    IF fmts = <<>> THEN MinDate
    ELSE LET dt == Strptime(part, Head(fmts)) IN
         IF dt # NoDate THEN dt ELSE FirstParse(part, Tail(fmts))

\* parse_event_date
ParseEventDate(ev) ==
    LET date_str == DateString(ev) IN
    IF ~Truthy(date_str) THEN MinDate
    ELSE FirstParse(UpTo(date_str, " "), PossibleFormats)

DateLess(a, b) ==
    \/ a[1] < b[1]
    \/ a[1] = b[1] /\ a[2] < b[2]
    \/ a[1] = b[1] /\ a[2] = b[2] /\ a[3] < b[3]

\* A sort that puts an event before the events of the same date.
RECURSIVE InsertBeforeTies(_, _)
InsertBeforeTies(sorted, ev) ==
    IF sorted = <<>> THEN <<ev>>
    ELSE IF ~DateLess(ParseEventDate(ev), ParseEventDate(Head(sorted))) THEN <<ev>> \o sorted
    ELSE <<Head(sorted)>> \o InsertBeforeTies(Tail(sorted), ev)

\* list.sort(key=parse_event_date, reverse=True), one element at a time: an
\* event goes behind every event whose date is not earlier than its own.
RECURSIVE InsertDesc(_, _)
InsertDesc(sorted, ev) ==
    IF sorted = <<>> THEN <<ev>>
    ELSE IF DateLess(ParseEventDate(Head(sorted)), ParseEventDate(ev)) THEN <<ev>> \o sorted
    ELSE <<Head(sorted)>> \o InsertDesc(Tail(sorted), ev)

RECURSIVE SortByDateDesc(_)
SortByDateDesc(evs) ==
    IF evs = <<>> THEN <<>>
    ELSE InsertDesc(SortByDateDesc(SubSeq(evs, 1, Len(evs) - 1)), evs[Len(evs)])

\* evs[:n] for n >= 0
Take(evs, n) == SubSeq(evs, 1, IF n < Len(evs) THEN n ELSE Len(evs))

\* fetch_recent_events_from_sport80, lines 165-179: the events of the years
\* whose index fetch gave a dict, in the order of the years.
RECURSIVE AllEventDictionaries(_)
AllEventDictionaries(years) ==
    IF years = <<>> THEN <<>>
    ELSE (IF Head(years).ok THEN Head(years).events ELSE <<>>)
         \o AllEventDictionaries(Tail(years))

\* fetch_recent_events_from_sport80(api_client, num_events)
FetchRecentEventsFrom(years, num_events) ==
    LET all_event_dictionaries == AllEventDictionaries(years) IN
    IF all_event_dictionaries = <<>> THEN <<>>
    ELSE Take(SortByDateDesc(all_event_dictionaries), num_events)

\* main, line 281: num_events=20
NumEvents == 20

\* fetch_recent_events_from_sport80 as main() calls it: the events of the
\* index, sorted and cut to num_events, or none when the index fetches fail.
FetchRecentEvents(outcome) ==
    FetchRecentEventsFrom(<<[events |-> source, ok |-> outcome = "ok"],
                            [events |-> <<>>, ok |-> outcome = "ok"]>>, NumEvents)

\* filter_already_existing_event_ids: the candidate ids the table holds.
FilterAlreadyExisting(ids, outcome) ==
    IF ids = <<>> THEN {}
    ELSE IF outcome # "ok" THEN {}
    ELSE {Strip(r.event_id) : r \in {x \in db : x.event_id \in Range(ids) /\ Truthy(x.event_id)}}

\* fetch_max_id_from_supabase: the highest id of the table, 0 when it is
\* empty or the query fails.
FetchMaxId(outcome) ==
    IF outcome = "ok" THEN Max({r.id : r \in db}) ELSE 0

\* A fetch_meet_results_from_sport80 that lets the rows through although the
\* fetch failed.
FetchMeetResultsIgnoringFailure(ev, outcome) ==
    IF ev.route = NoStr \/ ev.route = NullStr THEN <<>>
    ELSE [j \in 1..ev.nrows |-> j]

\* fetch_meet_results_from_sport80: the result rows of an event; [] when the
\* event has no action route or the fetch fails.
FetchMeetResults(ev, outcome) ==
    IF ev.route = NoStr \/ ev.route = NullStr THEN <<>>
    ELSE IF outcome = "ok" THEN [j \in 1..ev.nrows |-> j]
    ELSE <<>>

\* A candidate loop without the meet name check.
MissingMeetNameNever(name) == FALSE

\* main, line 335: if not current_meet_name
MissingMeetName(name) == ~Truthy(name)

\* main, line 322: the first id for new rows.
FirstRowId(max_id) == max_id + 1

\* A membership test that never finds the id.
AlreadyExistsNever(id, ids) == FALSE

\* main, lines 339 and 343: membership tests of the candidate loop.
AlreadyExists(id, ids) == id \in ids

\* A processed_event_ids_this_run.add(id) that was left out.
MarkProcessedDropped(ids, id) == ids

\* main, lines 353 and 395: processed_event_ids_this_run.add(id)
MarkProcessed(ids, id) == ids \cup {id}

\* A row loop that never advances next_id_for_new_rows.
FormatRowsSameId(event_id, meet, detailed, first_id) ==
    [j \in 1..Len(detailed) |-> Row(first_id, event_id, meet)]

\* main, lines 360-386: one formatted row per result item, ids counting up.
FormatRows(event_id, meet, detailed, first_id) ==
    [j \in 1..Len(detailed) |-> Row(first_id + j - 1, event_id, meet)]

\* A row loop that takes one id more than it has rows.
NextIdReservingOne(id, formatted) == id + Len(formatted) + 1

\* main, line 386: next_id_for_new_rows += 1, once per formatted row.
NextIdAfter(id, formatted) == id + Len(formatted)

\* main, line 390: new_events_added_count += 1 (the response is not looked at).
CountAfterInsert(n, resp_ok) == n + 1

Effect(op, key, rows, ok) == [op |-> op, key |-> key, rows |-> rows, ok |-> ok]

WalkIdle ==
    /\ remote = <<>>
    /\ payload = NoVal
    /\ all_pages = <<>>
    /\ current_page = NoPage
    /\ index = 0
    /\ wpc = "idle"
    /\ requests = <<>>
    /\ caller = NoVal
    /\ first_payload = NoVal
    /\ first_ok = TRUE
    /\ results = Pending

RunLocalsInit ==
    /\ pc = "start"
    /\ recent = <<>>
    /\ cands = <<>>
    /\ existing = {}
    /\ max_id_in_db = 0
    /\ next_id = 0
    /\ processed = {}
    /\ count = 0
    /\ i = 1
    /\ outcomes = <<>>
    /\ effects = <<>>
    /\ failures = {}
    /\ summary = NoSummary

Init ==
    /\ WalkIdle
    /\ RecentIdle
    /\ source \in SeqsUpTo(SourceEvents, MaxEvents)
    /\ db \in SUBSET SeedRows
    /\ db_start = db
    /\ configured \in BOOLEAN
    /\ run = 1
    /\ prev_clean = TRUE
    /\ RunLocalsInit

\* A main() without the configuration check.
AfterConfigCheckMissing(cfg) == "fetch"

\* main, lines 275-277: where main() goes after the configuration check.
AfterConfigCheck(cfg) == IF cfg THEN "fetch" ELSE "done"

\* main, lines 275-277: without the store's URL and key the run ends at once.
Start ==
    /\ pc = "start"
    /\ pc' = AfterConfigCheck(configured)
    /\ UNCHANGED <<source, db, configured, run, recent, cands, existing, max_id_in_db,
                   next_id, processed, count, i, outcomes, effects, failures, db_start,
                   summary, prev_clean>>
    /\ UNCHANGED <<wvars, rvars>>

\* main, lines 279-286: fetch the recent events; return when there are none.
FetchRecent ==
    /\ pc = "fetch"
    /\ \E outcome \in CallOutcomes :
        /\ recent' = FetchRecentEvents(outcome)
        /\ effects' = Append(effects, Effect("index", NoStr, <<>>, outcome = "ok"))
        /\ failures' = IF outcome = "ok" THEN failures ELSE failures \cup {"index"}
    /\ pc' = IF recent' = <<>> THEN "done" ELSE "parse"
    /\ UNCHANGED <<source, db, configured, run, cands, existing, max_id_in_db,
                   next_id, processed, count, i, outcomes, db_start, summary,
                   prev_clean>>
    /\ UNCHANGED <<wvars, rvars>>

\* A main() that goes from the candidates straight to the candidate loop.
AfterCandidatesSkipsLoad(candidates) == IF candidates = <<>> THEN "done" ELSE "loop"

\* main, lines 311-318: return when there are no candidates, else go on to
\* the query for the ids the store already holds.
AfterCandidates(candidates) == IF candidates = <<>> THEN "done" ELSE "load"

\* main, lines 288-313: build the candidates; return when there are none.
BuildCandidates ==
    /\ pc = "parse"
    /\ \A k \in 1..Len(recent) : ~ExtractKeyRaises(recent[k])
    /\ cands' = CandidateDetails(recent)
    /\ pc' = AfterCandidates(cands')
    /\ UNCHANGED <<source, db, configured, run, recent, existing, max_id_in_db,
                   next_id, processed, count, i, outcomes, effects, failures, db_start,
                   summary, prev_clean>>
    /\ UNCHANGED <<wvars, rvars>>

\* main, line 293: the AttributeError of an event whose route is no string
\* is not caught; main() ends with the exception.
BuildCandidatesRaises ==
    /\ pc = "parse"
    /\ \E k \in 1..Len(recent) : ExtractKeyRaises(recent[k])
    /\ pc' = "crashed"
    /\ UNCHANGED <<source, db, configured, run, recent, cands, existing, max_id_in_db,
                   next_id, processed, count, i, outcomes, effects, failures, db_start,
                   summary, prev_clean>>
    /\ UNCHANGED <<wvars, rvars>>

\* main, lines 315-319: ask the store which candidate ids it holds.
LoadExisting ==
    /\ pc = "load"
    /\ \E outcome \in CallOutcomes :
        /\ existing' = FilterAlreadyExisting([k \in 1..Len(cands) |-> cands[k].id], outcome)
        /\ effects' = Append(effects, Effect("load", NoStr, <<>>, outcome = "ok"))
        /\ failures' = IF outcome = "ok" THEN failures ELSE failures \cup {"load"}
    /\ pc' = "maxid"
    /\ UNCHANGED <<source, db, configured, run, recent, cands, max_id_in_db,
                   next_id, processed, count, i, outcomes, db_start, summary,
                   prev_clean>>
    /\ UNCHANGED <<wvars, rvars>>

\* main, lines 321-326: seed the row ids and the per-run bookkeeping.
SeedIds ==
    /\ pc = "maxid"
    /\ \E outcome \in CallOutcomes :
        /\ max_id_in_db' = FetchMaxId(outcome)
        /\ effects' = Append(effects, Effect("maxid", NoStr, <<>>, outcome = "ok"))
        /\ failures' = IF outcome = "ok" THEN failures ELSE failures \cup {"maxid"}
    /\ next_id' = FirstRowId(max_id_in_db')
    /\ processed' = {}
    /\ count' = 0
    /\ pc' = "loop"
    /\ UNCHANGED <<source, db, configured, run, recent, cands, existing, i, outcomes,
                   db_start, summary, prev_clean>>
    /\ UNCHANGED <<wvars, rvars>>

\* What the candidate loop leaves alone in every iteration.
LoopFrame == UNCHANGED <<source, configured, run, recent, cands, existing, max_id_in_db,
                          db_start, summary, prev_clean>>

InLoop == pc = "loop" /\ i <= Len(cands)

\* main, lines 335-337: a candidate without a meet name is skipped.
SkipNoName ==
    /\ InLoop
    /\ MissingMeetName(cands[i].name)
    /\ outcomes' = Append(outcomes, "noname")
    /\ i' = i + 1
    /\ UNCHANGED <<db, next_id, processed, count, effects, failures, pc>>
    /\ LoopFrame
    /\ UNCHANGED <<wvars, rvars>>

\* main, lines 339-341: a candidate whose id the store already holds is skipped.
SkipExisting ==
    /\ InLoop
    /\ ~MissingMeetName(cands[i].name)
    /\ AlreadyExists(cands[i].id, existing)
    /\ outcomes' = Append(outcomes, "existing")
    /\ i' = i + 1
    /\ UNCHANGED <<db, next_id, processed, count, effects, failures, pc>>
    /\ LoopFrame
    /\ UNCHANGED <<wvars, rvars>>

\* main, lines 343-345: a candidate whose id was handled earlier in this run
\* is skipped.
SkipProcessed ==
    /\ InLoop
    /\ ~MissingMeetName(cands[i].name)
    /\ ~AlreadyExists(cands[i].id, existing)
    /\ AlreadyExists(cands[i].id, processed)
    /\ outcomes' = Append(outcomes, "processed")
    /\ i' = i + 1
    /\ UNCHANGED <<db, next_id, processed, count, effects, failures, pc>>
    /\ LoopFrame
    /\ UNCHANGED <<wvars, rvars>>

\* main, lines 349-354: the detail fetch gave no rows; the id is recorded as
\* processed and the candidate is skipped.
SkipNoResults ==
    /\ InLoop
    /\ ~MissingMeetName(cands[i].name)
    /\ ~AlreadyExists(cands[i].id, existing)
    /\ ~AlreadyExists(cands[i].id, processed)
    /\ \E outcome \in CallOutcomes :
        LET detailed_results_list == FetchMeetResults(cands[i].data, outcome) IN
        /\ detailed_results_list = <<>>
        /\ effects' = Append(effects, Effect("detail", cands[i].id, <<>>, outcome = "ok"))
        /\ failures' = IF outcome = "ok" THEN failures ELSE failures \cup {"detail"}
    /\ processed' = MarkProcessed(processed, cands[i].id)
    /\ outcomes' = Append(outcomes, "noresults")
    /\ i' = i + 1
    /\ UNCHANGED <<db, next_id, count, pc>>
    /\ LoopFrame
    /\ UNCHANGED <<wvars, rvars>>

\* main, lines 349-395 with add_meet_results_to_supabase: the detail rows are
\* formatted, each taking the next row id, and posted as one batch; the
\* store takes the batch or rejects it (it rejects a row id it already
\* holds); the id is recorded as processed.
InsertBatch ==
    /\ InLoop
    /\ ~MissingMeetName(cands[i].name)
    /\ ~AlreadyExists(cands[i].id, existing)
    /\ ~AlreadyExists(cands[i].id, processed)
    /\ \E outcome \in CallOutcomes, post \in CallOutcomes :
        LET detailed_results_list == FetchMeetResults(cands[i].data, outcome)
            formatted == FormatRows(cands[i].id, cands[i].name, detailed_results_list, next_id)
            resp_ok == post = "ok"
        IN
        /\ detailed_results_list # <<>>
        /\ resp_ok => {r.id : r \in db} \cap {r.id : r \in Range(formatted)} = {}
        /\ next_id' = NextIdAfter(next_id, formatted)
        /\ db' = IF resp_ok THEN db \cup Range(formatted) ELSE db
        /\ count' = CountAfterInsert(count, resp_ok)
        /\ effects' = effects \o <<Effect("detail", cands[i].id, <<>>, outcome = "ok"),
                                   Effect("insert", cands[i].id, formatted, resp_ok)>>
        /\ failures' = IF resp_ok THEN failures ELSE failures \cup {"insert"}
    /\ processed' = MarkProcessed(processed, cands[i].id)
    /\ outcomes' = Append(outcomes, "inserted")
    /\ i' = i + 1
    /\ UNCHANGED pc
    /\ LoopFrame
    /\ UNCHANGED <<wvars, rvars>>

NotifyOutcomes == {"sent", "failed", "unconfigured"}

\* main, lines 397-400 with send_discord_notification: the count of added
\* meets is handed to the notification; its delivery changes nothing else.
Finish ==
    /\ pc = "loop"
    /\ i > Len(cands)
    /\ \E delivery \in NotifyOutcomes :
        summary' = [count_added |-> count, delivery |-> delivery]
    /\ pc' = "done"
    /\ UNCHANGED <<source, db, configured, run, recent, cands, existing, max_id_in_db,
                   next_id, processed, count, i, outcomes, effects, failures, db_start,
                   prev_clean>>
    /\ UNCHANGED <<wvars, rvars>>

\* The script is run again: the remote source is as before, the store is as
\* the previous run left it.
RunAgain ==
    /\ pc \in {"done", "crashed"}
    /\ run < MaxRuns
    /\ run' = run + 1
    /\ prev_clean' = (failures = {} /\ pc = "done")
    /\ db_start' = db
    /\ pc' = "start"
    /\ recent' = <<>>
    /\ cands' = <<>>
    /\ existing' = {}
    /\ max_id_in_db' = 0
    /\ next_id' = 0
    /\ processed' = {}
    /\ count' = 0
    /\ i' = 1
    /\ outcomes' = <<>>
    /\ effects' = <<>>
    /\ failures' = {}
    /\ summary' = NoSummary
    /\ UNCHANGED <<source, db, configured>>
    /\ UNCHANGED <<wvars, rvars>>

Next ==
    \/ Start \/ FetchRecent \/ BuildCandidates \/ BuildCandidatesRaises
    \/ LoadExisting \/ SeedIds
    \/ SkipNoName \/ SkipExisting \/ SkipProcessed \/ SkipNoResults \/ InsertBatch
    \/ Finish \/ RunAgain

Spec == Init /\ [][Next]_vars

(***************************************************************************)
(* fetch_recent_events_from_sport80 on its own                             *)
(***************************************************************************)
\* Date strings of the remote index.
IsoDate == <<"2", "0", "2", "4", "-", "0", "3", "-", "0", "5">>

DayFirstDate == <<"0", "5", "/", "0", "3", "/", "2", "0", "2", "4">>

MonthFirstDate == <<"0", "1", "/", "1", "3", "/", "2", "0", "2", "4">>

IsoDateTime == <<"2", "0", "2", "4", "-", "0", "3", "-", "0", "5", " ", "1", "0", ":", "0", "0", ":", "0", "0">>

NotADate == <<"n", "/", "a">>

MinDateString == <<"0", "0", "0", "1", "-", "0", "1", "-", "0", "1">>

OlderDate == <<"2", "0", "2", "3", "-", "1", "2", "-", "3", "1">>

NoSuchDay == <<"2", "0", "2", "3", "-", "0", "2", "-", "2", "9">>

\* An event of the index with the given date fields.
Dated(has_columns, col_date, date, start_date) ==
    EventRec(<<"/", "1">>, NoStr, <<"b">>, 1, has_columns, col_date, date, start_date)

\* Events that differ in where and how they carry their date: in 'date', in
\* the 'Start Date' column, in 'start_date' behind an empty 'date', nowhere,
\* or in a 'date' that the columns hide.
DatedEvents ==
    { Dated(FALSE, NoStr, IsoDate, NoStr),
      Dated(FALSE, NoStr, DayFirstDate, NoStr),
      Dated(TRUE, MonthFirstDate, NoStr, NoStr),
      Dated(FALSE, NoStr, <<>>, IsoDateTime),
      Dated(FALSE, NoStr, NoStr, NoStr),
      Dated(FALSE, NoStr, NotADate, NoStr),
      Dated(FALSE, NoStr, MinDateString, NoStr),
      Dated(TRUE, NoStr, IsoDate, NoStr),
      Dated(FALSE, NoStr, OlderDate, NoStr),
      Dated(FALSE, NoStr, NoSuchDay, NoStr) }

\* What api_client.event_index gives for one year: the events of the year,
\* or no dict at all (the call raised or returned something else).
YearIndex(n) ==
    {[events |-> a, ok |-> TRUE] : a \in SeqsUpTo(DatedEvents, n)}
    \cup {[events |-> <<>>, ok |-> FALSE]}

\* The two years of years_to_check.
YearIndexes == {<<a, b>> : a \in YearIndex(MaxEvents), b \in YearIndex(1)}

RecentInit ==
    /\ WalkIdle
    /\ SyncIdle
    /\ yr_index \in YearIndexes
    /\ limit \in 0..MaxEvents
    /\ fetched = <<>>
    /\ rpc = "idle"

\* fetch_recent_events_from_sport80(api_client, num_events=limit)
FetchRecentEventsCall ==
    /\ rpc = "idle"
    /\ fetched' = FetchRecentEventsFrom(yr_index, limit)
    /\ rpc' = "done"
    /\ UNCHANGED <<yr_index, limit>>
    /\ UNCHANGED <<wvars, svars>>

RecentNext == FetchRecentEventsCall

SpecRecent == RecentInit /\ [][RecentNext]_vars

(***************************************************************************)
(* Properties of the fetched events (checked under SpecRecent)             *)
(***************************************************************************)
\* The events the two index calls gave, in fetch order.
InputEvents ==
    (IF yr_index[1].ok THEN yr_index[1].events ELSE <<>>)
    \o (IF yr_index[2].ok THEN yr_index[2].events ELSE <<>>)

\* A date as one number that grows with the date.
DateOrd(d) == d[1] * 10000 + d[2] * 100 + d[3]

\* The date parse_event_date gives for each event of the index.
ResolvedDates == [ev \in DatedEvents |-> ParseEventDate(ev)]

ResolvedOrd(ev) == DateOrd(ResolvedDates[ev])

\* The place of the j-th fetched event in the descending order that keeps
\* fetch order among equal dates: behind every event of a later date and
\* behind the events of its own date fetched before it.
PlaceOf(j) ==
    1 + Cardinality({m \in 1..Len(InputEvents) :
                        \/ ResolvedOrd(InputEvents[m]) > ResolvedOrd(InputEvents[j])
                        \/ /\ ResolvedOrd(InputEvents[m]) = ResolvedOrd(InputEvents[j])
                           /\ m < j})

\* C19: the returned list holds the fetched events in descending order of
\* resolved date, equal dates in fetch order, cut to the first N.
C19_SortedStableTruncated ==
    rpc = "done" =>
        /\ Len(fetched) = IF limit < Len(InputEvents) THEN limit ELSE Len(InputEvents)
        /\ \A j \in 1..Len(InputEvents) :
              PlaceOf(j) <= Len(fetched) => fetched[PlaceOf(j)] = InputEvents[j]

\* C19 witness: of three fetched events the first two differ and have the
\* same date, the third is later; with N = 2 the list is the third, then
\* the first.
C19_Witness ==
    /\ rpc = "done"
    /\ limit = 2
    /\ Len(InputEvents) = 3
    /\ InputEvents[1] # InputEvents[2]
    /\ ResolvedOrd(InputEvents[1]) = ResolvedOrd(InputEvents[2])
    /\ ResolvedOrd(InputEvents[3]) > ResolvedOrd(InputEvents[1])
    /\ fetched = <<InputEvents[3], InputEvents[1]>>

\* The events that have a date string of which one of the formats parses
\* the date part.
ResolvingEvents ==
    {ev \in DatedEvents :
        /\ Truthy(DateString(ev))
        /\ \E n \in 1..Len(PossibleFormats) :
              Strptime(UpTo(DateString(ev), " "), PossibleFormats[n]) # NoDate}

Resolves(ev) == ev \in ResolvingEvents

Unresolved(evs) == {k \in 1..Len(evs) : ~Resolves(evs[k])}

LaterThanMin(evs) == {k \in 1..Len(evs) : ResolvedOrd(evs[k]) > DateOrd(<<1, 1, 1>>)}

IsoNotation == [sep |-> "-", order |-> <<1, 2, 3>>, time |-> FALSE]

DayFirstNotation == [sep |-> "/", order |-> <<3, 2, 1>>, time |-> FALSE]

MonthFirstNotation == [sep |-> "/", order |-> <<3, 1, 2>>, time |-> FALSE]

\* The date of a date-only string under the first of ISO, day-first and
\* month-first that reads it as a calendar date; none when none does.
FirstReading(part) ==
    IF Strptime(part, IsoNotation) # NoDate THEN Strptime(part, IsoNotation)
    ELSE IF Strptime(part, DayFirstNotation) # NoDate THEN Strptime(part, DayFirstNotation)
    ELSE Strptime(part, MonthFirstNotation)

\* What each event of the index resolves to under that order.
FirstReadings == [ev \in ResolvingEvents |-> FirstReading(UpTo(DateString(ev), " "))]

\* C21: every fetched event whose date one of the formats parses resolves
\* to the reading of the date-only part of its string under the first of
\* ISO, day-first, month-first that parses it; "2024-03-05", with or
\* without a time of day behind it, is 5 March 2024, "05/03/2024" is
\* 5 March 2024 (day-first) and "01/13/2024", which day-first cannot read,
\* is 13 January 2024.
C21_FormatOrder ==
    rpc = "done" =>
        \A k \in 1..Len(InputEvents) :
            LET ev == InputEvents[k] IN
            /\ Resolves(ev) => ResolvedDates[ev] = FirstReadings[ev]
            /\ DateString(ev) = IsoDate => ResolvedDates[ev] = <<2024, 3, 5>>
            /\ DateString(ev) = IsoDateTime => ResolvedDates[ev] = <<2024, 3, 5>>
            /\ DateString(ev) = DayFirstDate => ResolvedDates[ev] = <<2024, 3, 5>>
            /\ DateString(ev) = MonthFirstDate => ResolvedDates[ev] = <<2024, 1, 13>>

\* C21 witness: "2024-03-05" and then "05/03/2024" were fetched and are
\* returned in that order: the two resolve to the same day (read
\* month-first, the second would be 3 May and come first).
C21_Witness ==
    /\ rpc = "done"
    /\ limit = 2
    /\ Len(InputEvents) = 2
    /\ DateString(InputEvents[1]) = IsoDate
    /\ ~InputEvents[1].has_columns
    /\ DateString(InputEvents[2]) = DayFirstDate
    /\ fetched = InputEvents

(***************************************************************************)
(* Properties of the orchestrator (checked under Spec)                     *)
(***************************************************************************)
Inserts == SelectSeq(effects, LAMBDA e : e.op = "insert")

Details == SelectSeq(effects, LAMBDA e : e.op = "detail")

\* The candidate was handed to the detail fetch (and possibly inserted).
Attempted(k) == outcomes[k] \in {"noresults", "inserted"}

Handled == 1..Len(outcomes)

\* C2: in one run no key is detail-fetched or inserted twice: once a
\* candidate with some key has been attempted, every later candidate with
\* that key leaves the loop without a detail fetch and without an insert.
C2_OneInsertPerKey ==
    /\ \A a, b \in 1..Len(Inserts) : a # b => Inserts[a].key # Inserts[b].key
    /\ \A a, b \in 1..Len(Details) : a # b => Details[a].key # Details[b].key
    /\ \A j, k \in Handled :
        (j < k /\ cands[j].id = cands[k].id /\ Attempted(j)) => ~Attempted(k)

\* C2 witness: the first candidate was inserted and the second, with the
\* same key, was rejected as processed in this run.
C2_Witness ==
    /\ Len(outcomes) = 2
    /\ cands[1].id = cands[2].id
    /\ outcomes[1] = "inserted"
    /\ outcomes[2] = "processed"

\* C3: against the existing-key set the store query returned, a candidate
\* whose key is in the set is never detail-fetched or inserted (it is
\* rejected as existing when it has a name), a candidate whose key is not in
\* the set is never rejected as existing, and such a candidate with a name
\* whose key was not attempted earlier in the run is treated as new.
C3_Classification ==
    /\ \A k \in Handled :
        /\ cands[k].id \in existing =>
            /\ ~Attempted(k)
            /\ Truthy(cands[k].name) => outcomes[k] = "existing"
        /\ cands[k].id \notin existing =>
            /\ outcomes[k] # "existing"
            /\ (/\ Truthy(cands[k].name)
                /\ \A j \in 1..(k - 1) : cands[j].id = cands[k].id => ~Attempted(j))
               => Attempted(k)
    /\ \A n \in 1..Len(effects) :
        effects[n].op \in {"detail", "insert"} => effects[n].key \notin existing

\* C3 witness: with existing keys {"1"}, the candidate with key "1" was
\* rejected as existing and the candidate with key "2" was inserted.
C3_Witness ==
    /\ pc = "done"
    /\ existing = {<<"1">>}
    /\ Len(outcomes) = 2
    /\ cands[1].id = <<"1">> /\ outcomes[1] = "existing"
    /\ cands[2].id = <<"2">> /\ outcomes[2] = "inserted"

\* C4: after a failed existing-key load or max-id lookup no batch write is
\* issued in the run.
C4_LoadFailureIsFatal ==
    ("load" \in failures \/ "maxid" \in failures) => Inserts = <<>>

\* C5: the count of added meets counts the successful batch inserts only.
C5_FailedInsertNotCounted ==
    count = Cardinality({n \in 1..Len(Inserts) : Inserts[n].ok})

\* The row ids of the run's batches, in the order they were issued.
RECURSIVE RowIds(_)
RowIds(batches) ==
    IF batches = <<>> THEN <<>>
    ELSE [j \in 1..Len(Head(batches).rows) |-> Head(batches).rows[j].id]
         \o RowIds(Tail(batches))

\* C6: the row ids issued in a run are max_id_in_db + 1, + 2, ... in order
\* over all batches of the run, failed ones included, one id per result row
\* of each inserted candidate, and the counter stands one past the last.
C6_IdsMonotonic ==
    LET ids == RowIds(Inserts) IN
    /\ ids = [n \in 1..Len(ids) |-> max_id_in_db + n]
    /\ pc = "loop" => next_id = max_id_in_db + 1 + Len(ids)
    /\ \A k \in Handled :
        outcomes[k] = "inserted" =>
            \E n \in 1..Len(Inserts) :
                /\ Inserts[n].key = cands[k].id
                /\ Len(Inserts[n].rows) = cands[k].data.nrows

\* C6 witness: seeded with 3, a rejected batch took id 4 and the next
\* batch took id 5.
C6_Witness ==
    /\ max_id_in_db = 3
    /\ Len(Inserts) = 2
    /\ ~Inserts[1].ok
    /\ RowIds(Inserts) = <<4, 5>>

\* The keys and the highest row id of the store when the run started.
StartKeys == {r.event_id : r \in db_start}

StartMaxId == Max({r.id : r \in db_start})

\* C7: at the end of a run, no candidate whose key the store held was
\* detail-fetched or inserted, every inserted candidate has one batch with
\* one row per result row, all with its key, the row ids continue from the
\* store's highest id, and the summary count is the number of candidates the
\* store took.
C7_EndToEnd ==
    (pc = "done" /\ summary # NoSummary) =>
        /\ \A k \in Handled : cands[k].id \in StartKeys => ~Attempted(k)
        /\ \A k \in Handled :
            outcomes[k] = "inserted" =>
                Cardinality({n \in 1..Len(Inserts) :
                    /\ Inserts[n].key = cands[k].id
                    /\ Len(Inserts[n].rows) = cands[k].data.nrows
                    /\ \A j \in 1..Len(Inserts[n].rows) :
                           Inserts[n].rows[j].event_id = cands[k].id}) = 1
        /\ RowIds(Inserts) = [n \in 1..Len(RowIds(Inserts)) |-> StartMaxId + n]
        /\ summary.count_added = Cardinality({n \in 1..Len(Inserts) : Inserts[n].ok})

\* C8: a run that follows a run without any failed call, against the same
\* remote source, adds nothing.
C8_SecondRunAddsNothing ==
    (run > 1 /\ prev_clean) => (count = 0 /\ Inserts = <<>>)

\* str.lower() on the letters the model's names are written with.
Lower(s) == [n \in 1..Len(s) |-> IF s[n] = "A" THEN "a" ELSE s[n]]

NormName(s) == Lower(Strip(s))

\* C9: a candidate whose lower-cased, trimmed name is the name of an event
\* the store held at the start of the run is never detail-fetched or
\* inserted.
C9_NameMatchIsDuplicate ==
    \A k \in Handled :
        (/\ Truthy(cands[k].name)
         /\ NormName(cands[k].name) \in {NormName(r.meet) : r \in db_start})
        => ~Attempted(k)

\* C13: every key accepted for a candidate is a non-empty string without
\* leading or trailing blanks, and it is the key its record yields.
C13_KeysNonEmptyTrimmed ==
    \A k \in 1..Len(cands) :
        /\ cands[k].id # <<>>
        /\ Strip(cands[k].id) = cands[k].id
        /\ cands[k].id = ExtractKey(cands[k].data)

\* The route of the event is a string.
HasRoute(ev) == ev.route # NoStr /\ ev.route # NullStr

\* The candidates of the fetched events as the key rule reads: the trimmed
\* segment after the last '/' of the route; without a usable route the
\* trimmed id; an event with neither is left out.
RECURSIVE CandidatesByRule(_)
CandidatesByRule(evs) ==
    IF evs = <<>> THEN <<>>
    ELSE LET ev == Head(evs)
             rest == CandidatesByRule(Tail(evs))
         IN IF HasRoute(ev)
            THEN <<[id |-> Strip(LastSegment(ev.route)), name |-> ev.meet, data |-> ev]>> \o rest
            ELSE IF ev.id # NoStr /\ ev.id # <<>>
            THEN <<[id |-> Strip(ev.id), name |-> ev.meet, data |-> ev]>> \o rest
            ELSE rest

\* C14: the run never ends in the key extraction, and once the candidates
\* are built they are the fetched events keyed by the route's last segment,
\* else by the id, the events with neither being left out.
C14_KeyExtraction ==
    /\ pc # "crashed"
    /\ pc \in {"load", "maxid", "loop"} => cands = CandidatesByRule(recent)

\* C15: in a run without the store's URL and key nothing is fetched, read or
\* written, no summary is sent, and the run is at its start or its end.
C15_NoEffectWithoutConfig ==
    ~configured =>
        /\ pc \in {"start", "done"}
        /\ effects = <<>>
        /\ recent = <<>>
        /\ db = db_start
        /\ summary = NoSummary

\* C15 witness: an unconfigured run has ended although the remote source
\* holds events.
C15_Witness ==
    /\ ~configured
    /\ pc = "done"
    /\ source # <<>>

\* The detail fetches that failed, by position in the effects.
FailedDetails == {n \in 1..Len(effects) : effects[n].op = "detail" /\ ~effects[n].ok}

\* C16: a candidate whose detail fetch failed or gave no rows has its key
\* in the processed set and no insert; a failed detail fetch is never
\* followed by an insert of its key; and the run goes on: it does not end
\* in an exception and at its end every candidate has been handled and the
\* summary is sent.
C16_DetailFailureIsolated ==
    /\ \A k \in Handled :
          outcomes[k] = "noresults" =>
              /\ cands[k].id \in processed
              /\ \A n \in 1..Len(Inserts) : Inserts[n].key # cands[k].id
              /\ pc \in {"loop", "done"}
              /\ pc = "done" => (Len(outcomes) = Len(cands) /\ summary # NoSummary)
    /\ \A n \in FailedDetails :
          /\ effects[n].key \in processed
          /\ \A m \in 1..Len(effects) : effects[m].op = "insert" => effects[m].key # effects[n].key

\* C16 witness: the detail fetch of the first candidate failed, the second
\* candidate was inserted, and the run has ended.
C16_Witness ==
    /\ pc = "done"
    /\ outcomes = <<"noresults", "inserted">>
    /\ FailedDetails # {}
    /\ Len(Inserts) = 1

\* C17: a configured run that has ended has sent one summary with the
\* count of additions.
C17_SummaryAlways ==
    (configured /\ pc = "done") => (summary # NoSummary /\ summary.count_added = count)

\* The name is None or the empty string.
NoUsableName(name) == name = NoStr \/ name = <<>>

\* C18: a candidate without a name is skipped as nameless; the detail
\* fetches and the inserts of the run are those of the other candidates, one
\* each; every inserted row carries a name; and the row ids handed out so
\* far are those of the inserted rows.
C18_NamelessSkipped ==
    /\ \A k \in Handled : NoUsableName(cands[k].name) <=> outcomes[k] = "noname"
    /\ Len(Details) = Cardinality({k \in Handled : Attempted(k)})
    /\ Len(Inserts) = Cardinality({k \in Handled : outcomes[k] = "inserted"})
    /\ \A n \in 1..Len(Inserts) : \A j \in 1..Len(Inserts[n].rows) :
          ~NoUsableName(Inserts[n].rows[j].meet)
    /\ (pc = "loop" \/ outcomes # <<>>) =>
          next_id = FirstRowId(max_id_in_db) + Len(RowIds(Inserts))

\* C18 witness: a nameless candidate was skipped and the candidate after it
\* was inserted, its rows taking the first ids.
C18_Witness ==
    /\ outcomes = <<"noname", "inserted">>
    /\ NoUsableName(cands[1].name)
    /\ Len(Details) = 1
    /\ Len(Inserts) = 1
    /\ Inserts[1].rows[1].id = FirstRowId(max_id_in_db)

\* The kinds of the remote calls of the run so far, in order.
Ops == [n \in 1..Len(effects) |-> effects[n].op]

\* C23 as stated: the existing state of the destination is loaded before
\* the candidates are fetched, and no batch insert precedes the
\* existing-key load or the max-id seed.
C23_LoadBeforeFetch ==
    \A n \in 1..Len(effects) :
        /\ effects[n].op = "index" =>
              \E m \in 1..(n - 1) : effects[m].op = "load"
        /\ effects[n].op = "insert" =>
              /\ \E m \in 1..(n - 1) : effects[m].op = "load"
              /\ \E m \in 1..(n - 1) : effects[m].op = "maxid"

\* C23 amended: in every run the calls occur in the order candidates fetch
\* (with its sort and cut), existing-key load, max-id seed, then per new
\* candidate the detail fetch followed, when it gave rows, by the batch
\* insert of that candidate's rows, then the summary: the existing state is
\* loaded after the candidates are fetched, and no batch insert precedes
\* the existing-key load or the max-id seed.
C23_PhaseOrder ==
    /\ \A n \in 1..Len(effects) :
          /\ n = 1 <=> effects[n].op = "index"
          /\ n = 2 <=> effects[n].op = "load"
          /\ n = 3 <=> effects[n].op = "maxid"
          /\ n > 3 => effects[n].op \in {"detail", "insert"}
          /\ effects[n].op = "insert" =>
                /\ effects[n - 1].op = "detail"
                /\ effects[n - 1].key = effects[n].key
                /\ effects[n].rows # <<>>
    /\ Len(effects) >= 1 => recent = FetchRecentEvents(IF effects[1].ok THEN "ok" ELSE "fail")
    /\ pc \in {"maxid", "loop"} => Len(effects) >= 2
    /\ pc = "loop" => Len(effects) >= 3
    /\ outcomes # <<>> => Len(effects) >= 3
    /\ summary # NoSummary => (pc = "done" /\ Len(outcomes) = Len(cands))

\* C23 witness: a run went through all phases: index, load, max id, a
\* detail fetch without rows, a detail fetch with its insert, summary.
C23_Witness ==
    /\ pc = "done"
    /\ summary # NoSummary
    /\ Ops = <<"index", "load", "maxid", "detail", "detail", "insert">>

\* The candidate handled by this step was skipped.
SkipStep ==
    /\ Len(outcomes') = Len(outcomes) + 1
    /\ outcomes'[Len(outcomes')] \in {"noname", "existing", "processed", "noresults"}

\* The candidate handled by this step had rows formatted and posted.
InsertStep ==
    /\ Len(outcomes') = Len(outcomes) + 1
    /\ outcomes'[Len(outcomes')] = "inserted"

\* C24: a step that skips a candidate leaves the id counter and the added
\* count as they were and posts nothing; a step that emits rows advances
\* the id counter by the number of rows it emitted, at least one, the rows
\* taking the ids from the old counter on.
C24_SkipLeavesCounters ==
    [][ /\ SkipStep => (next_id' = next_id /\ count' = count /\ Inserts' = Inserts)
        /\ InsertStep =>
              LET rows == effects'[Len(effects')].rows IN
              /\ Len(rows) >= 1
              /\ next_id' = next_id + Len(rows)
              /\ \A j \in 1..Len(rows) : rows[j].id = next_id + j - 1 ]_vars

\* C24 witness: a candidate whose detail fetch gave no rows was skipped and
\* the next one was inserted with the first id after the store's maximum.
C24_Witness ==
    /\ outcomes = <<"noresults", "inserted">>
    /\ count = 1
    /\ Len(Inserts) = 1
    /\ Inserts[1].rows[1].id = max_id_in_db + 1
    /\ next_id = max_id_in_db + 1 + Len(Inserts[1].rows)

====
